---- MODULE Spec2Model ----
(***************************************************************************)
(* Verification model of lakmalz/poc_rag_builder: the streaming chunking   *)
(* pipeline (src/bckup/ingest_components.py, src/bckup/latest/             *)
(* ingest_components.py), the index builder (src/bckup/latest/             *)
(* index_components.py, src/bckup/index_components-1.py), the entry points *)
(* that invoke the extractor (src/pipeline_cli.py) and the retrieval       *)
(* aggregator (src/query_cli.py, src/bckup/query_cli.py).                  *)
(*                                                                         *)
(* Strings are sequences of one-character strings.  Every subsystem has    *)
(* its own variables and its own specification; a specification keeps the  *)
(* variables of the other subsystems at their idle values.                 *)
(***************************************************************************)
EXTENDS Integers, Sequences, FiniteSets, TLC

VARIABLES
    \* ComponentIngestor.chunk_text (src/bckup/ingest_components.py)
    text_in, max_chars, overlap, text, start, chunks, cpc,
    \* ComponentIngestor.split_code (src/bckup/latest/ingest_components.py)
    code, max_length, sentences, current_chunk, code_chunks, spc,
    \* ComponentIngestor.minimal_ingest / emergency_process
    \* (src/bckup/ingest_components.py)
    entry, prior, docs_exists, docs, max_components, fs, ipc, di, idx,
    processed_components, first_chunk, exc, renamed, caller_exc,
    \* query (src/bckup/query_cli.py, src/query_cli.py)
    found, per_component, hits, grouped, results, qpc,
    backend, index_exists, not_found_error, q_outcome,
    \* ComponentIngestor.split_file_by_size (src/bckup/ingest_components.py)
    in_docs, max_size_bytes, pdi, part_num, current_batch, current_size,
    part_files, ppc,
    \* ComponentIndexer.build_index (src/bckup/latest/index_components.py,
    \* src/bckup/index_components-1.py)
    indexer, chunker, chunks_file, batch_size, dup_add, collection,
    ix_chunks, ix_i, index_file, meta_file, ix_exc, ixpc,
    \* the entry points that invoke the extractor: main (src/pipeline_cli.py),
    \* ComponentIngestor.emergency_process (src/bckup/ingest_components.py),
    \* ComponentIngestor.create_chunks (src/bckup/latest/ingest_components.py)
    entry_point, input_was_present, docs_present, script_present,
    extractor_rc, extractor_writes, chunks_present, ingest_rc, components,
    cc_max, extractor_runs, exists_checks, stages, all_chunks, cc_i,
    output_written, outcome, rpc,
    \* ComponentIngestor.clean_text (src/bckup/latest/ingest_components.py)
    text_is_none, raw_text, cleaned, cleaned_again, npc,
    \* the mappers: ComponentIngestor.extract_component_chunks
    \* (src/bckup/latest/ingest_components.py) and
    \* ComponentIngestor.process_single_component
    \* (src/bckup/ingest_components.py)
    mapper, component, code_parts, m_chunks, m_error, mpc,
    \* subprocess.Popen of the extractor in emergency_process
    \* (src/bckup/ingest_components.py) and create_chunks
    \* (src/bckup/latest/ingest_components.py)
    popen_site, stdout_left, stderr_left, exit_status, stdout_pipe,
    stderr_pipe, child, echoed, err, returncode, xpc

chunkVars == <<text_in, max_chars, overlap, text, start, chunks, cpc>>
splitVars == <<code, max_length, sentences, current_chunk, code_chunks, spc>>
ingestVars ==
    <<entry, prior, docs_exists, docs, max_components, fs, ipc, di, idx,
      processed_components, first_chunk, exc, renamed, caller_exc>>
queryVars ==
    <<found, per_component, hits, grouped, results, qpc,
      backend, index_exists, not_found_error, q_outcome>>
partVars ==
    <<in_docs, max_size_bytes, pdi, part_num, current_batch, current_size,
      part_files, ppc>>
indexVars ==
    <<indexer, chunker, chunks_file, batch_size, dup_add, collection,
      ix_chunks, ix_i, index_file, meta_file, ix_exc, ixpc>>
runVars ==
    <<entry_point, input_was_present, docs_present, script_present,
      extractor_rc, extractor_writes, chunks_present, ingest_rc, components,
      cc_max, extractor_runs, exists_checks, stages, all_chunks, cc_i,
      output_written, outcome, rpc>>
cleanVars == <<text_is_none, raw_text, cleaned, cleaned_again, npc>>
mapVars == <<mapper, component, code_parts, m_chunks, m_error, mpc>>
pipeVars ==
    <<popen_site, stdout_left, stderr_left, exit_status, stdout_pipe,
      stderr_pipe, child, echoed, err, returncode, xpc>>
vars ==
    <<chunkVars, splitVars, ingestVars, queryVars, partVars, indexVars,
      runVars, cleanVars, mapVars, pipeVars>>

\* what the actions of one subsystem leave alone
chunkOthers ==
    <<splitVars, ingestVars, queryVars, partVars, indexVars,
      runVars, cleanVars, mapVars, pipeVars>>
splitOthers ==
    <<chunkVars, ingestVars, queryVars, partVars, indexVars,
      runVars, cleanVars, mapVars, pipeVars>>
ingestOthers ==
    <<chunkVars, splitVars, queryVars, partVars, indexVars,
      runVars, cleanVars, mapVars, pipeVars>>
queryOthers ==
    <<chunkVars, splitVars, ingestVars, partVars, indexVars,
      runVars, cleanVars, mapVars, pipeVars>>
partOthers ==
    <<chunkVars, splitVars, ingestVars, queryVars, indexVars,
      runVars, cleanVars, mapVars, pipeVars>>
indexOthers ==
    <<chunkVars, splitVars, ingestVars, queryVars, partVars,
      runVars, cleanVars, mapVars, pipeVars>>
runOthers ==
    <<chunkVars, splitVars, ingestVars, queryVars, partVars, indexVars,
      cleanVars, mapVars, pipeVars>>
cleanOthers ==
    <<chunkVars, splitVars, ingestVars, queryVars, partVars, indexVars,
      runVars, mapVars, pipeVars>>
mapOthers ==
    <<chunkVars, splitVars, ingestVars, queryVars, partVars, indexVars,
      runVars, cleanVars, pipeVars>>
pipeOthers ==
    <<chunkVars, splitVars, ingestVars, queryVars, partVars, indexVars,
      runVars, cleanVars, mapVars>>

(***************************************************************************)
(* Bounds of the model.                                                    *)
(***************************************************************************)
MaxText == 4        \* longest text handed to chunk_text
MaxSize == 3        \* largest max_chars / max_length drawn as an input
MaxChunks == 6      \* memory budget: fragments a chunk list can hold
MaxCode == 4        \* longest code string handed to split_code
MaxIngestDocs == 2  \* documents in the input of one streaming run
MaxHits == 3        \* entries of one search result (k)
MaxPer == 2         \* largest per_component drawn as an input
MaxDocs == 3        \* documents in the input of the partitioner
MaxName == 2        \* longest document name, in characters
MaxFrags == 3       \* fragments in the fragment file handed to build_index
MaxOld == 3         \* records an earlier build left in the collection
MaxBatch == 2       \* largest batch_size drawn as an input
MaxComponents == 2  \* components in the input of create_chunks
MaxPieces == 4      \* pieces a text handed to clean_text is made of
MaxParts == 2       \* pieces split_code cuts one long snippet into
MaxOut == 3         \* units of output the extractor writes to stdout
MaxErr == 3         \* units of output the extractor writes to stderr
PipeCap == 2        \* units of output a pipe holds before a write blocks

(***************************************************************************)
(* Program constants.                                                      *)
(***************************************************************************)
ProcMaxChars == 500     \* chunk_text(big_text, max_chars=500, ...)
ProcOverlap == 30       \* chunk_text(big_text, ..., overlap=30)
None == -1              \* max_components=None

(***************************************************************************)
(* Strings.                                                                *)
(***************************************************************************)
Whitespace == {" "}

SeqsUpTo(S, n) == UNION {[1..k -> S] : k \in 0..n}

Min(a, b) == IF a <= b THEN a ELSE b

RECURSIVE LStrip(_)
LStrip(s) ==
    IF s # <<>> /\ Head(s) \in Whitespace THEN LStrip(Tail(s)) ELSE s

RECURSIVE RStrip(_)
RStrip(s) ==
    IF s # <<>> /\ s[Len(s)] \in Whitespace
    THEN RStrip(SubSeq(s, 1, Len(s) - 1))
    ELSE s

\* str.strip()
Strip(s) == RStrip(LStrip(s))

\* text[a:b] for 0 <= a, b (Python slice, 0-based, end exclusive)
Slice(s, a, b) == SubSeq(s, a + 1, Min(b, Len(s)))

(***************************************************************************)
(* chunk_text: the character-window chunker.                               *)
(***************************************************************************)
TextChars == {"a", "b", " "}

\* end = min(L, start + max_chars)
WindowEnd(L, s, mc) == Min(L, s + mc)

\* start = end - overlap; if start < 0: start = 0
NextStart(end, ov) == IF end - ov < 0 THEN 0 ELSE end - ov

\* (max_chars, overlap) drawn as inputs, 0 <= overlap < max_chars, and the
\* pair process_single_component passes
ChunkParams ==
    {p \in (1..MaxSize) \X (0..MaxSize) : p[2] < p[1]}
        \cup {<<ProcMaxChars, ProcOverlap>>}

InitChunk ==
    /\ text_in \in SeqsUpTo(TextChars, MaxText)
    /\ \E p \in ChunkParams : max_chars = p[1] /\ overlap = p[2]
    /\ text = <<>>
    /\ start = 0
    /\ chunks = <<>>
    /\ cpc = "call"

IdleChunk ==
    /\ text_in = <<>> /\ max_chars = 1 /\ overlap = 0
    /\ text = <<>> /\ start = 0 /\ chunks = <<>> /\ cpc = "idle"

\* text = text.strip(); if not text: return []
ChunkEmpty ==
    /\ cpc = "call"
    /\ Strip(text_in) = <<>>
    /\ text' = Strip(text_in)
    /\ chunks' = <<>>
    /\ cpc' = "done"
    /\ UNCHANGED <<text_in, max_chars, overlap, start, chunkOthers>>

\* chunks = []; start = 0; L = len(text)
ChunkEnter ==
    /\ cpc = "call"
    /\ Strip(text_in) # <<>>
    /\ text' = Strip(text_in)
    /\ chunks' = <<>>
    /\ start' = 0
    /\ cpc' = "loop"
    /\ UNCHANGED <<text_in, max_chars, overlap, chunkOthers>>

\* one iteration of `while start < L`
ChunkStep ==
    /\ cpc = "loop"
    /\ start < Len(text)
    /\ Len(chunks) < MaxChunks
    /\ LET end == WindowEnd(Len(text), start, max_chars) IN
        /\ chunks' = Append(chunks, Strip(Slice(text, start, end)))
        /\ start' = NextStart(end, overlap)
    /\ UNCHANGED <<text_in, max_chars, overlap, text, cpc, chunkOthers>>

\* the loop condition fails: return chunks
ChunkReturn ==
    /\ cpc = "loop"
    /\ start >= Len(text)
    /\ cpc' = "done"
    /\ UNCHANGED <<text_in, max_chars, overlap, text, start, chunks, chunkOthers>>

NextChunk == ChunkEmpty \/ ChunkEnter \/ ChunkStep \/ ChunkReturn

(***************************************************************************)
(* Claims about chunk_text.                                                *)
(***************************************************************************)
\* C3: chunk_text terminates: from one iteration of the window loop to the
\* next the window start strictly advances, so that it reaches the text
\* length after finitely many fragments.
C3_StartStrictlyAdvances ==
    [][(cpc = "loop" /\ cpc' = "loop") => start' > start]_vars

\* the trimmed windows t[s:s+mc] for s = s0, s0 + step, ... while s < len(t)
RECURSIVE WindowsFrom(_, _, _, _)
WindowsFrom(t, s, mc, ov) ==
    IF s >= Len(t) THEN <<>>
    ELSE <<Strip(Slice(t, s, s + mc))>> \o WindowsFrom(t, s + (mc - ov), mc, ov)

\* C4: the fragments chunk_text produces are exactly the trimmed windows
\* text[s:s+max_size] for s = 0, step, 2*step, ... while s < len(text), with
\* step = max_size - overlap: the k-th fragment appended is the k-th window,
\* no fragment is appended beyond the last window, and the returned
\* sequence is the whole window sequence (none for blank text, one for a
\* text no longer than max_size).
C4_FragmentsAreTheWindows ==
    cpc \in {"loop", "done"} =>
        LET W == WindowsFrom(Strip(text_in), 0, max_chars, overlap) IN
            /\ Len(chunks) <= Len(W)
            /\ \A i \in 1..Len(chunks) : chunks[i] = W[i]
            /\ cpc = "done" => chunks = W

(***************************************************************************)
(* split_code: the statement-aware splitter.                               *)
(***************************************************************************)
CodeChars == {"a", ";", " "}
Delims == {".", ";", "{", "}"}

\* re.split(r'[.;{}]\s*', code): cut at every delimiter, the delimiter and
\* the whitespace that follows it being dropped.  `acc` is the piece read
\* so far, `eat` says a delimiter's trailing whitespace is being consumed.
RECURSIVE ReSplit(_, _, _)
ReSplit(s, acc, eat) ==
    IF s = <<>> THEN <<acc>>
    ELSE IF eat /\ Head(s) \in Whitespace THEN ReSplit(Tail(s), acc, TRUE)
    ELSE IF Head(s) \in Delims THEN <<acc>> \o ReSplit(Tail(s), <<>>, TRUE)
    ELSE ReSplit(Tail(s), Append(acc, Head(s)), FALSE)

InitSplit ==
    /\ code \in SeqsUpTo(CodeChars, MaxCode)
    /\ max_length \in 1..MaxSize
    /\ sentences = <<>>
    /\ current_chunk = <<>>
    /\ code_chunks = <<>>
    /\ spc = "call"

IdleSplit ==
    /\ code = <<>> /\ max_length = 1 /\ sentences = <<>>
    /\ current_chunk = <<>> /\ code_chunks = <<>> /\ spc = "idle"

\* if len(code) <= max_length: return [code]
SplitShort ==
    /\ spc = "call"
    /\ Len(code) <= max_length
    /\ code_chunks' = <<code>>
    /\ spc' = "done"
    /\ UNCHANGED <<code, max_length, sentences, current_chunk, splitOthers>>

\* chunks = []; current_chunk = ""; sentences = re.split(...)
SplitBegin ==
    /\ spc = "call"
    /\ Len(code) > max_length
    /\ code_chunks' = <<>>
    /\ current_chunk' = <<>>
    /\ sentences' = ReSplit(code, <<>>, FALSE)
    /\ spc' = "loop"
    /\ UNCHANGED <<code, max_length, splitOthers>>

\* one iteration of `for sentence in sentences`
SplitStep ==
    /\ spc = "loop"
    /\ sentences # <<>>
    /\ LET sentence == Strip(Head(sentences)) IN
        IF sentence = <<>>
        THEN UNCHANGED <<current_chunk, code_chunks>>
        ELSE IF Len(current_chunk) + Len(sentence) > max_length
                /\ current_chunk # <<>>
        THEN /\ code_chunks' = Append(code_chunks, Strip(current_chunk))
             /\ current_chunk' = sentence
        ELSE /\ current_chunk' =
                    IF current_chunk # <<>>
                    THEN current_chunk \o <<" ">> \o sentence
                    ELSE sentence
             /\ UNCHANGED code_chunks
    /\ sentences' = Tail(sentences)
    /\ UNCHANGED <<code, max_length, spc, splitOthers>>

\* if current_chunk: chunks.append(current_chunk.strip()); return chunks
SplitFinish ==
    /\ spc = "loop"
    /\ sentences = <<>>
    /\ code_chunks' =
            IF current_chunk # <<>>
            THEN Append(code_chunks, Strip(current_chunk))
            ELSE code_chunks
    /\ spc' = "done"
    /\ UNCHANGED <<code, max_length, sentences, current_chunk, splitOthers>>

NextSplit == SplitShort \/ SplitBegin \/ SplitStep \/ SplitFinish

(***************************************************************************)
(* Claims about split_code.                                                *)
(***************************************************************************)
\* C5: every fragment the statement-aware splitter returns is at most the
\* configured maximum fragment size long (a statement segment longer than
\* the limit is cut into character windows).
C5_FragmentWithinMaxSize ==
    spc = "done" =>
        \A i \in 1..Len(code_chunks) : Len(code_chunks[i]) <= max_length

(***************************************************************************)
(* minimal_ingest: the streaming collection processor, and the try/except  *)
(* of emergency_process around it.                                         *)
(***************************************************************************)
\* chunk_text as the processor calls it.  The chunk list grows by one
\* fragment per iteration; a loop that has filled the memory budget without
\* reaching the end of the text has not returned.
RECURSIVE ChunkLoop(_, _, _, _, _)
ChunkLoop(t, mc, ov, s, cs) ==
    IF s >= Len(t) THEN [returned |-> TRUE, chunks |-> cs]
    ELSE IF Len(cs) >= MaxChunks THEN [returned |-> FALSE, chunks |-> cs]
    ELSE LET end == WindowEnd(Len(t), s, mc) IN
            ChunkLoop(t, mc, ov, NextStart(end, ov),
                      Append(cs, Strip(Slice(t, s, end))))

chunk_text(t, mc, ov) ==
    IF Strip(t) = <<>> THEN [returned |-> TRUE, chunks |-> <<>>]
    ELSE ChunkLoop(Strip(t), mc, ov, 0, <<>>)

\* the two paths of a run
output_chunks_path == "component_chunks.json"
\* (mutant: the writes go to the output path itself)
temp_file_is_output == output_chunks_path
\* temp_file = output_chunks_path.with_suffix('.tmp')
temp_file == "component_chunks.tmp"
Paths == {output_chunks_path, temp_file}

\* a file: absent, or present with the tokens written to it
FileAbsent == [exists |-> FALSE, data |-> <<>>]
File(d) == [exists |-> TRUE, data |-> d]

\* the tokens of a fragment file: "[", ",", "]", a fragment object, the torn
\* prefix of a fragment object, a fragment of an earlier run
Tok(t) == [t |-> t, chunk_id |-> -1, component_id |-> 0]
ChunkTok(cid, comp) == [t |-> "chunk", chunk_id |-> cid, component_id |-> comp]
OldOutput == <<Tok("["), Tok("old"), Tok("]")>>

\* a JSON array of fragment objects: "[", objects separated by ",", "]"
IsCompleteArray(d) ==
    /\ Len(d) >= 2
    /\ d[1].t = "["
    /\ d[Len(d)].t = "]"
    /\ \/ Len(d) = 2
       \/ /\ Len(d) % 2 = 1
          /\ \A i \in 2..(Len(d) - 1) :
                IF i % 2 = 0 THEN d[i].t \in {"chunk", "old"} ELSE d[i].t = ","

\* A document of the input: its position serves as its id.  `name` is the
\* shape of its name field: a string, absent, null, or a list of
\* non-integer numbers (ijson yields Decimal, which json.dump rejects after
\* it has written the fields before it).
NameShapes == {"str", "absent", "null", "floats"}
RawTexts == {<<>>, <<"b">>}
IngestDoc == [name : NameShapes, raw : RawTexts]
\* a collection item that is not an object (a string, a number, null): it
\* has no fields and no .get
NotAnObject == [name |-> "not_an_object", raw |-> <<>>]
IngestItem == IngestDoc \cup {NotAnObject}

\* big_text = " | ".join(text_parts): "Component: <name>" and the code
BigText(doc) ==
    <<"a">> \o (IF doc.raw # <<>> THEN <<" ">> \o doc.raw ELSE <<>>)

\* for i, chunk_text in enumerate(chunks): ... json.dump(chunk_obj, f_out)
RECURSIVE WriteChunks(_, _, _, _, _, _, _, _)
WriteChunks(doc, id, cs, i, out, start_idx, fc, written) ==
    IF i > Len(cs) THEN [out |-> out, written |-> written, raised |-> FALSE]
    ELSE LET out1 == IF ~fc \/ i > 1 THEN Append(out, Tok(",")) ELSE out IN
        IF doc.name = "floats"
        THEN [out |-> Append(out1, Tok("torn")), written |-> written,
              raised |-> FALSE]
        ELSE WriteChunks(doc, id, cs, i + 1,
                         Append(out1, ChunkTok(start_idx + i - 1, id)),
                         start_idx, fc, written + 1)

\* the document gets as far as the call of chunk_text
ReachesChunkText(doc) == doc # NotAnObject /\ doc.name # "null"

\* process_single_component: an Exception inside `try` is caught and
\* printed by a handler that itself evaluates doc.get('name', 'unknown');
\* it returns the number of fragments written.  `raised` says that an
\* exception leaves the function.
process_single_component(doc, id, out, start_idx, fc) ==
    IF doc = NotAnObject
    \* doc.get raises AttributeError in `try` and again in the handler
    THEN [out |-> out, written |-> 0, raised |-> TRUE]
    ELSE IF doc.name = "null"
    \* None[:100] raises TypeError, caught
    THEN [out |-> out, written |-> 0, raised |-> FALSE]
    ELSE LET r == chunk_text(BigText(doc), ProcMaxChars, ProcOverlap) IN
        IF ~r.returned
        \* MemoryError, caught
        THEN [out |-> out, written |-> 0, raised |-> FALSE]
        ELSE WriteChunks(doc, id, r.chunks, 1, out, start_idx, fc, 0)

\* if max_components and processed_components >= max_components: break
StopsAt(mc, processed) == mc # None /\ mc # 0 /\ processed >= mc

InitIngest ==
    /\ entry \in {"minimal_ingest", "emergency_process"}
    /\ prior \in {FileAbsent, File(OldOutput)}
    \* emergency_process calls minimal_ingest only past its existence check
    /\ docs_exists \in (IF entry = "emergency_process" THEN {TRUE} ELSE BOOLEAN)
    /\ docs \in SeqsUpTo(IngestItem, MaxIngestDocs)
    /\ max_components \in {None} \cup (0..MaxIngestDocs)
    /\ fs = [p \in Paths |-> IF p = output_chunks_path THEN prior ELSE FileAbsent]
    /\ ipc = "enter"
    /\ di = 1
    /\ idx = 0
    /\ processed_components = 0
    /\ first_chunk = TRUE
    /\ exc = "none"
    /\ renamed = FALSE
    /\ caller_exc = "none"

IdleIngest ==
    /\ entry = "minimal_ingest" /\ prior = FileAbsent /\ docs_exists = FALSE
    /\ docs = <<>> /\ max_components = None
    /\ fs = [p \in Paths |-> FileAbsent]
    /\ ipc = "idle" /\ di = 1 /\ idx = 0 /\ processed_components = 0
    /\ first_chunk = TRUE /\ exc = "none" /\ renamed = FALSE
    /\ caller_exc = "none"

ingestInputs == <<entry, prior, docs_exists, docs, max_components>>

\* if not Path(component_docs_path).exists(): raise FileNotFoundError
IngestMissingInput ==
    /\ ipc = "enter"
    /\ ~docs_exists
    /\ exc' = "Exception"
    /\ ipc' = "unwound"
    /\ UNCHANGED <<ingestInputs, fs, di, idx, processed_components,
                   first_chunk, renamed, caller_exc, ingestOthers>>

\* the input exists: idx = 0; processed_components = 0; temp_file = ...
IngestEnter ==
    /\ ipc = "enter"
    /\ docs_exists
    /\ idx' = 0
    /\ processed_components' = 0
    /\ ipc' = "open_tmp"
    /\ UNCHANGED <<ingestInputs, fs, di, first_chunk, exc, renamed,
                   caller_exc, ingestOthers>>

\* with open(temp_file, "w") as f_out
OpenTemp ==
    /\ ipc = "open_tmp"
    /\ fs' = [fs EXCEPT ![temp_file] = File(<<>>)]
    /\ ipc' = "header"
    /\ UNCHANGED <<ingestInputs, di, idx, processed_components, first_chunk,
                   exc, renamed, caller_exc, ingestOthers>>

\* f_out.write("[\n"); first_chunk = True
WriteHeader ==
    /\ ipc = "header"
    /\ fs' = [fs EXCEPT ![temp_file] = File(Append(@.data, Tok("[")))]
    /\ first_chunk' = TRUE
    /\ ipc' = "open_in"
    /\ UNCHANGED <<ingestInputs, di, idx, processed_components, exc, renamed,
                   caller_exc, ingestOthers>>

\* with open(component_docs_path, "rb") as f_in: docs = ijson.items(...)
OpenInput ==
    /\ ipc = "open_in"
    /\ di' = 1
    /\ ipc' = "loop"
    /\ UNCHANGED <<ingestInputs, fs, idx, processed_components, first_chunk,
                   exc, renamed, caller_exc, ingestOthers>>

\* one iteration of `for doc in docs` that processes the document
ProcessDoc ==
    /\ ipc = "loop"
    /\ di <= Len(docs)
    /\ ~StopsAt(max_components, processed_components)
    /\ LET r == process_single_component(docs[di], di, fs[temp_file].data,
                                         idx, first_chunk)
       IN /\ ~r.raised
          /\ fs' = [fs EXCEPT ![temp_file] = File(r.out)]
          /\ first_chunk' = IF r.written > 0 THEN FALSE ELSE first_chunk
          /\ idx' = IF r.written > 0 THEN idx + r.written ELSE idx
    /\ processed_components' = processed_components + 1
    /\ di' = di + 1
    /\ UNCHANGED <<ingestInputs, ipc, exc, renamed, caller_exc, ingestOthers>>

\* one iteration of `for doc in docs` in which process_single_component
\* raises: the exception leaves the loop and both `with` blocks, and
\* `except Exception` of minimal_ingest unlinks the temporary file and
\* re-raises
ProcessDocRaises ==
    /\ ipc = "loop"
    /\ di <= Len(docs)
    /\ ~StopsAt(max_components, processed_components)
    /\ process_single_component(docs[di], di, fs[temp_file].data, idx,
                                first_chunk).raised
    /\ fs' = [fs EXCEPT ![temp_file] = FileAbsent]
    /\ exc' = "AttributeError"
    /\ ipc' = "unwound"
    /\ UNCHANGED <<ingestInputs, di, idx, processed_components, first_chunk,
                   renamed, caller_exc, ingestOthers>>

\* chunk_text does not return and the operating system ends the process
\* before Python raises MemoryError: nothing of the run executes afterwards
ProcessDocKilled ==
    /\ ipc = "loop"
    /\ di <= Len(docs)
    /\ ~StopsAt(max_components, processed_components)
    /\ ReachesChunkText(docs[di])
    /\ ~chunk_text(BigText(docs[di]), ProcMaxChars, ProcOverlap).returned
    /\ ipc' = "killed"
    /\ UNCHANGED <<ingestInputs, fs, di, idx, processed_components,
                   first_chunk, exc, renamed, caller_exc, ingestOthers>>

\* the loop ends (input exhausted, or break at max_components);
\* f_out.write("\n]\n") and the file is closed
WriteFooter ==
    /\ ipc = "loop"
    /\ di > Len(docs) \/ StopsAt(max_components, processed_components)
    /\ fs' = [fs EXCEPT ![temp_file] = File(Append(@.data, Tok("]")))]
    /\ ipc' = "rename"
    /\ UNCHANGED <<ingestInputs, di, idx, processed_components, first_chunk,
                   exc, renamed, caller_exc, ingestOthers>>

\* temp_file.rename(output_chunks_path)
Rename ==
    /\ ipc = "rename"
    /\ fs' = [p \in Paths |->
                IF p = output_chunks_path THEN fs[temp_file]
                ELSE IF p = temp_file THEN FileAbsent
                ELSE fs[p]]
    /\ renamed' = TRUE
    /\ ipc' = "report"
    /\ UNCHANGED <<ingestInputs, di, idx, processed_components, first_chunk,
                   exc, caller_exc, ingestOthers>>

\* print(f"Successfully wrote ..."); minimal_ingest returns
Report ==
    /\ ipc = "report"
    /\ ipc' = "unwound"
    /\ UNCHANGED <<ingestInputs, fs, di, idx, processed_components,
                   first_chunk, exc, renamed, caller_exc, ingestOthers>>

\* the statements inside `try:` (open, write, parse, rename, print)
TryPcs == {"open_tmp", "header", "open_in", "loop", "rename", "report"}

\* a statement inside `try:` raises an Exception (OSError, a parse error of
\* ijson, ...): `except Exception as e` unlinks the temporary file if it
\* exists and re-raises
RaiseException ==
    /\ ipc \in TryPcs
    /\ fs' = [fs EXCEPT ![temp_file] = FileAbsent]
    /\ exc' = "Exception"
    /\ ipc' = "unwound"
    /\ UNCHANGED <<ingestInputs, di, idx, processed_components, first_chunk,
                   renamed, caller_exc, ingestOthers>>

\* KeyboardInterrupt is a BaseException: neither `except Exception` of
\* minimal_ingest nor that of process_single_component catches it
Interrupt ==
    /\ ipc \in TryPcs
    /\ exc' = "KeyboardInterrupt"
    /\ ipc' = "unwound"
    /\ UNCHANGED <<ingestInputs, fs, di, idx, processed_components,
                   first_chunk, renamed, caller_exc, ingestOthers>>

\* minimal_ingest called directly: its caller gets what it raised
ReturnToCaller ==
    /\ ipc = "unwound"
    /\ entry = "minimal_ingest"
    /\ caller_exc' = exc
    /\ ipc' = "exited"
    /\ UNCHANGED <<ingestInputs, fs, di, idx, processed_components,
                   first_chunk, exc, renamed, ingestOthers>>

\* what `except Exception` catches: "Exception" stands for the errors of
\* the environment (OSError, a parse error of ijson, ...)
ExceptionClasses == {"Exception", "AttributeError"}

\* emergency_process: `except Exception as e: print(...)`; anything else
\* (no error, a BaseException) passes through
EmergencyReturn ==
    /\ ipc = "unwound"
    /\ entry = "emergency_process"
    /\ caller_exc' = IF exc \in ExceptionClasses THEN "none" ELSE exc
    /\ ipc' = "exited"
    /\ UNCHANGED <<ingestInputs, fs, di, idx, processed_components,
                   first_chunk, exc, renamed, ingestOthers>>

NextIngest ==
    \/ IngestMissingInput \/ IngestEnter \/ OpenTemp \/ WriteHeader
    \/ OpenInput \/ ProcessDoc \/ ProcessDocRaises \/ ProcessDocKilled
    \/ WriteFooter \/ Rename
    \/ Report \/ RaiseException \/ Interrupt \/ ReturnToCaller
    \/ EmergencyReturn

(***************************************************************************)
(* Claims about minimal_ingest.                                            *)
(***************************************************************************)
\* C1: in every reachable state of a streaming run, failures included, the
\* final output path holds its previous content (or is absent as before) or
\* a complete fragment array, the latter only once the rename has happened;
\* an unfinished array is never at the final path.
C1_FinalNeverPartial ==
    \/ fs[output_chunks_path] = prior
    \/ /\ renamed
       /\ fs[output_chunks_path].exists
       /\ IsCompleteArray(fs[output_chunks_path].data)

\* C1 witness: the temporary file holds an unfinished array while the final
\* path still holds the output of the previous run, a document having been
\* processed.
C1_Witness ==
    /\ ipc = "loop"
    /\ processed_components >= 1
    /\ fs[temp_file].exists
    /\ ~IsCompleteArray(fs[temp_file].data)
    /\ prior.exists
    /\ fs[output_chunks_path] = prior

\* C2: when the streaming processor fails or is interrupted before the
\* final rename, then once control is back at the caller of the processing
\* entry point the temporary file is absent, the final output is what it
\* was before, and the caller has received the error.
C2_FailureCleansUpAndReraises ==
    (ipc = "exited" /\ exc # "none" /\ ~renamed) =>
        /\ ~fs[temp_file].exists
        /\ fs[output_chunks_path] = prior
        /\ caller_exc # "none"

\* the fragments of document j in a fragment file
FragmentsOf(d, j) ==
    {k \in 1..Len(d) : d[k].t = "chunk" /\ d[k].component_id = j}

\* a document whose field extraction fails
Malformed(doc) == doc = NotAnObject \/ doc.name \in {"null", "floats"}

\* C11: a document whose field extraction fails (a field of unexpected
\* type, a null field, an item that is not an object) is skipped: no
\* exception of it leaves the document loop and aborts the run, and once
\* the output is promoted every other document the run went through has
\* its fragments in the output.
C11_MalformedDocSkipped ==
    /\ exc # "AttributeError"
    /\ renamed =>
        \A j \in 1..(di - 1) :
            ~Malformed(docs[j]) =>
                FragmentsOf(fs[output_chunks_path].data, j) # {}

\* C12: for every bound m >= 0 passed as max_components the run maps at
\* most m documents (the first ones: document di is the next in input
\* order), and the stop falls between documents: what is promoted is a
\* closed array without a torn fragment.
C12_StopsAtBound ==
    /\ max_components # None => processed_components <= max_components
    /\ ipc = "loop" => di = processed_components + 1
    /\ renamed =>
        /\ IsCompleteArray(fs[output_chunks_path].data)
        /\ \A k \in 1..Len(fs[output_chunks_path].data) :
                fs[output_chunks_path].data[k].t # "torn"

\* the chunk_ids of the fragments of a fragment file, in file order
RECURSIVE ChunkIdsOf(_)
ChunkIdsOf(d) ==
    IF d = <<>> THEN <<>>
    ELSE IF Head(d).t = "chunk"
         THEN <<Head(d).chunk_id>> \o ChunkIdsOf(Tail(d))
         ELSE ChunkIdsOf(Tail(d))

\* C13: in the file a streaming run writes, the k-th fragment (counting
\* from 0) has chunk_id chunk_k, so the chunk_ids are pairwise distinct,
\* and between documents the running counter is the number of fragments
\* written so far.
C13_ChunkIdsAreTheCount ==
    (ipc \in {"loop", "rename"} /\ fs[temp_file].exists) =>
        LET ids == ChunkIdsOf(fs[temp_file].data) IN
            /\ \A k \in 1..Len(ids) : ids[k] = k - 1
            /\ idx = Len(ids)

(***************************************************************************)
(* query: the retrieval aggregator.                                        *)
(***************************************************************************)
\* chunks (chunks_meta.json): the component_id of every indexed fragment,
\* fragment idx being ChunkMeta[idx + 1]
ChunkMeta == <<"A", "A", "B", "C">>
Scores == 0..2
\* what the vector store returns: (score, idx) pairs in its native order,
\* idx = -1 being the "no match" filler of the flat index
Found == [score : Scores, idx : -1..(Len(ChunkMeta) - 1)]

\* chunks[idx] (a negative idx counts from the end of the list)
MetaAt(i) == IF i < 0 THEN ChunkMeta[Len(ChunkMeta) + 1 + i] ELSE ChunkMeta[i + 1]

HitOf(f) == [component_id |-> MetaAt(f.idx), chunk_id |-> f.idx, score |-> f.score]

\* (mutant: the sentinel test is missing)
RECURSIVE ToHitsNoSentinel(_)
ToHitsNoSentinel(fs_) ==
    IF fs_ = <<>> THEN <<>>
    ELSE <<HitOf(Head(fs_))>> \o ToHitsNoSentinel(Tail(fs_))

\* for score, idx in zip(D[0], I[0]): if idx < 0: continue; hits.append(...)
RECURSIVE ToHits(_)
ToHits(fs_) ==
    IF fs_ = <<>> THEN <<>>
    ELSE IF Head(fs_).idx < 0 THEN ToHits(Tail(fs_))
    ELSE <<HitOf(Head(fs_))>> \o ToHits(Tail(fs_))

\* grouped.setdefault(cid, []).append(h): a dict keeps insertion order, so
\* the groups stand in the order of their first hit
RECURSIVE GroupHits(_, _)
GroupHits(hs, g) ==
    IF hs = <<>> THEN g
    ELSE LET h == Head(hs) IN
        IF \E i \in 1..Len(g) : g[i].cid = h.component_id
        THEN GroupHits(Tail(hs),
                [i \in 1..Len(g) |->
                    IF g[i].cid = h.component_id
                    THEN [cid |-> g[i].cid, hs |-> Append(g[i].hs, h)]
                    ELSE g[i]])
        ELSE GroupHits(Tail(hs), Append(g, [cid |-> h.component_id, hs |-> <<h>>]))

\* (mutant: an element goes before the elements of equal key)
RECURSIVE InsertBeforeTies(_, _)
InsertBeforeTies(s, e) ==
    IF s = <<>> THEN <<e>>
    ELSE IF s[Len(s)].k < e.k THEN Append(s, e)
    ELSE Append(InsertBeforeTies(SubSeq(s, 1, Len(s) - 1), e), s[Len(s)])

\* list.sort / sorted are stable: an element goes after every element whose
\* key is not greater
RECURSIVE InsertStable(_, _)
InsertStable(s, e) ==
    IF s = <<>> THEN <<e>>
    ELSE IF s[Len(s)].k <= e.k THEN Append(s, e)
    ELSE Append(InsertStable(SubSeq(s, 1, Len(s) - 1), e), s[Len(s)])

RECURSIVE SortPairs(_, _)
SortPairs(ps, acc) ==
    IF ps = <<>> THEN acc ELSE SortPairs(Tail(ps), InsertStable(acc, Head(ps)))

\* sorted(hs, key=lambda x: -x["score"])
SortedHits(hs) ==
    LET s == SortPairs([i \in 1..Len(hs) |-> [k |-> 0 - hs[i].score, v |-> hs[i]]], <<>>)
    IN [i \in 1..Len(s) |-> s[i].v]

\* results.sort(key=lambda x: -x["best_score"])
SortedResults(rs) ==
    LET s == SortPairs([i \in 1..Len(rs) |-> [k |-> 0 - rs[i].best_score, v |-> rs[i]]], <<>>)
    IN [i \in 1..Len(s) |-> s[i].v]

\* (mutant: the slice is taken of the unsorted group)
GroupResultUnsorted(cid, hs, pc) ==
    [component_id |-> cid,
     best_score |-> SortedHits(hs)[1].score,
     top_chunks |-> Slice(hs, 0, pc)]

\* hs_sorted = sorted(hs, ...); {"component_id": cid, "best_score":
\* hs_sorted[0]["score"], "top_chunks": hs_sorted[:per_component]}
GroupResult(cid, hs, pc) ==
    [component_id |-> cid,
     best_score |-> SortedHits(hs)[1].score,
     top_chunks |-> Slice(SortedHits(hs), 0, pc)]

\* what the store can return: the flat index pads with idx = -1, the
\* collection has no filler; nothing is returned when there is no index
FoundBy(be, exists) ==
    IF ~exists THEN {<<>>}
    ELSE IF be = "faiss" THEN SeqsUpTo(Found, MaxHits)
    ELSE SeqsUpTo({f \in Found : f.idx >= 0}, MaxHits)

\* what the missing index makes the store raise: faiss.read_index raises
\* RuntimeError; client.get_collection raises ValueError or, by the
\* version of the store, an error that is not a ValueError
NotFoundErrors(be) ==
    IF be = "faiss" THEN {"RuntimeError"} ELSE {"ValueError", "NotFoundError"}

InitQuery ==
    /\ backend \in {"faiss", "chroma"}
    /\ index_exists \in BOOLEAN
    /\ not_found_error \in NotFoundErrors(backend)
    /\ found \in FoundBy(backend, index_exists)
    /\ per_component \in 1..MaxPer
    /\ hits = <<>>
    /\ grouped = <<>>
    /\ results = <<>>
    /\ q_outcome = "running"
    /\ qpc = "command"

IdleQuery ==
    /\ found = <<>> /\ per_component = 1 /\ hits = <<>> /\ grouped = <<>>
    /\ results = <<>> /\ qpc = "idle"
    /\ backend = "faiss" /\ index_exists = FALSE
    /\ not_found_error = "RuntimeError" /\ q_outcome = "running"

queryCmd == <<backend, index_exists, not_found_error, q_outcome>>

\* the index is there: the module-level faiss.read_index and json.load
\* (flat index), or _get_collection inside query_components (collection)
OpenIndex ==
    /\ qpc = "command"
    /\ index_exists
    /\ qpc' = "search"
    /\ UNCHANGED <<queryCmd, found, per_component, hits, grouped, results,
                   queryOthers>>

\* flat index, no index file: faiss.read_index raises while the module is
\* loaded, outside any handler: the command dies with a traceback
LoadIndexFails ==
    /\ qpc = "command"
    /\ ~index_exists
    /\ backend = "faiss"
    /\ q_outcome' = "crash"
    /\ qpc' = "exited"
    /\ UNCHANGED <<backend, index_exists, not_found_error, found,
                   per_component, hits, grouped, results, queryOthers>>

\* except ValueError
IsValueError(e) == e = "ValueError"

\* collection, no collection: client.get_collection raises.  A ValueError
\* is raised again by _get_collection with the guidance; query prints it
\* ("Error: ...", "Make sure to run ... first") and returns.  Any other
\* error passes `except ValueError` of _get_collection and is printed by
\* `except Exception` of query as "Unexpected error: ...".
GetCollectionFails ==
    /\ qpc = "command"
    /\ ~index_exists
    /\ backend = "chroma"
    /\ q_outcome' =
        IF IsValueError(not_found_error) THEN "guidance"
        ELSE "unexpected_error"
    /\ qpc' = "exited"
    /\ UNCHANGED <<backend, index_exists, not_found_error, found,
                   per_component, hits, grouped, results, queryOthers>>

\* the hits are built from the search result
CollectHits ==
    /\ qpc = "search"
    /\ hits' = ToHits(found)
    /\ qpc' = "group"
    /\ UNCHANGED <<queryCmd, found, per_component, grouped, results, queryOthers>>

\* grouped = {}; for h in hits: grouped.setdefault(cid, []).append(h)
Aggregate ==
    /\ qpc = "group"
    /\ grouped' = GroupHits(hits, <<>>)
    /\ qpc' = "build"
    /\ UNCHANGED <<queryCmd, found, per_component, hits, results, queryOthers>>

\* results = []; for cid, hs in grouped.items(): results.append({...})
BuildResults ==
    /\ qpc = "build"
    /\ results' = [i \in 1..Len(grouped) |->
                        GroupResult(grouped[i].cid, grouped[i].hs, per_component)]
    /\ qpc' = "sort"
    /\ UNCHANGED <<queryCmd, found, per_component, hits, grouped, queryOthers>>

\* results.sort(key=lambda x: -x["best_score"]); return results
RankResults ==
    /\ qpc = "sort"
    /\ results' = SortedResults(results)
    /\ qpc' = "done"
    /\ UNCHANGED <<queryCmd, found, per_component, hits, grouped, queryOthers>>

NextQuery ==
    \/ OpenIndex \/ LoadIndexFails \/ GetCollectionFails
    \/ CollectHits \/ Aggregate \/ BuildResults \/ RankResults

(***************************************************************************)
(* Claims about the retrieval aggregator.                                  *)
(***************************************************************************)
\* the positions of the search result that are real hits, and their owners
RealPositions == {i \in 1..Len(found) : found[i].idx >= 0}
OwnerAt(i) == ChunkMeta[found[i].idx + 1]
\* the position at which the first hit of document cid arrived
FirstArrival(cid) ==
    CHOOSE i \in RealPositions :
        /\ OwnerAt(i) = cid
        /\ \A j \in RealPositions : OwnerAt(j) = cid => i <= j

\* C6: the aggregated results are in non-increasing order of best_score,
\* and of two documents with the same best_score the one whose first hit
\* arrived earlier from the vector store comes first.
C6_RankedByBestScoreStable ==
    qpc = "done" =>
        \A i, j \in 1..Len(results) :
            i < j =>
                \/ results[i].best_score > results[j].best_score
                \/ /\ results[i].best_score = results[j].best_score
                   /\ FirstArrival(results[i].component_id)
                        < FirstArrival(results[j].component_id)

\* C6 witness: three documents are ranked, the last two tie on best_score,
\* and the best document is not the one discovered first.
C6_Witness ==
    /\ qpc = "done"
    /\ Len(results) = 3
    /\ results[1].best_score > results[2].best_score
    /\ results[2].best_score = results[3].best_score
    /\ FirstArrival(results[1].component_id) > FirstArrival(results[2].component_id)

\* the scores of the hits of document cid, in arrival order
RECURSIVE ScoresOf(_, _)
ScoresOf(cid, i) ==
    IF i > Len(found) THEN <<>>
    ELSE IF found[i].idx >= 0 /\ OwnerAt(i) = cid
         THEN <<found[i].score>> \o ScoresOf(cid, i + 1)
         ELSE ScoresOf(cid, i + 1)

SeqMax(s) == CHOOSE m \in {s[i] : i \in 1..Len(s)} : \A i \in 1..Len(s) : s[i] <= m

RemoveAt(s, i) == SubSeq(s, 1, i - 1) \o SubSeq(s, i + 1, Len(s))

\* a sequence of numbers in non-increasing order (by repeated selection of
\* the maximum)
RECURSIVE Descending(_)
Descending(s) ==
    IF s = <<>> THEN <<>>
    ELSE LET i == CHOOSE k \in 1..Len(s) : s[k] = SeqMax(s)
         IN <<s[i]>> \o Descending(RemoveAt(s, i))

\* C7: with per_component >= 1, every aggregated result has as best_score
\* the maximum score of its document's hits, and as top_chunks that
\* document's hits in non-increasing order of score cut to
\* min(per_component, number of its hits) entries, each of them a hit of
\* that document.
C7_BestScoreAndTopChunks ==
    qpc = "done" =>
        \A r \in 1..Len(results) :
            LET cid == results[r].component_id
                mine == ScoresOf(cid, 1)
                top == results[r].top_chunks
                n == Min(per_component, Len(mine))
            IN /\ mine # <<>>
               /\ results[r].best_score = SeqMax(mine)
               /\ Len(top) = n
               /\ [i \in 1..Len(top) |-> top[i].score] = SubSeq(Descending(mine), 1, n)
               /\ \A i \in 1..Len(top) :
                    /\ top[i].component_id = cid
                    /\ \E p \in RealPositions :
                        /\ OwnerAt(p) = cid
                        /\ found[p].idx = top[i].chunk_id
                        /\ found[p].score = top[i].score

\* C7 witness: a document has more hits than per_component, at least two of
\* them are kept, and its best hit did not arrive first.
C7_Witness ==
    /\ qpc = "done"
    /\ \E r \in 1..Len(results) :
        LET mine == ScoresOf(results[r].component_id, 1) IN
            /\ Len(mine) > per_component
            /\ Len(results[r].top_chunks) >= 2
            /\ mine[1] < results[r].best_score

\* C8: the component_ids of the aggregated results are exactly those of the
\* hits that do not carry the sentinel id, each in exactly one result; a
\* search result without real hits yields the empty result list.
C8_OneResultPerRealComponent ==
    qpc = "done" =>
        /\ {results[i].component_id : i \in 1..Len(results)}
                = {OwnerAt(p) : p \in RealPositions}
        /\ \A i, j \in 1..Len(results) :
                results[i].component_id = results[j].component_id => i = j
        /\ RealPositions = {} => results = <<>>

\* C8 witness: the search result holds a sentinel entry next to the hits of
\* two documents.
C8_Witness ==
    /\ qpc = "done"
    /\ \E i \in 1..Len(found) : found[i].idx < 0
    /\ Len(results) = 2

\* C19: the query command issued before an index or collection exists
\* does not crash: it ends after reporting the error together with the
\* guidance to build the index first, and it returns no results.
C19_QueryBeforeIndexIsReported ==
    (qpc = "exited" /\ ~index_exists) =>
        /\ q_outcome = "guidance"
        /\ results = <<>>

(***************************************************************************)
(* split_file_by_size: the size-bounded partitioner.                       *)
(***************************************************************************)
\* A Document as the extractor writes it: id, name and file, and the raw
\* snippet when there is one.  Its fields are given by the lengths of their
\* JSON texts (quotes included): <<key, value>>.
DocShape == [name_len : 1..MaxName, has_raw : BOOLEAN]
Fields(doc) ==
    <<  <<4, 4>>,                       \* "id": "c<n>"
        <<6, 2 + doc.name_len>>,        \* "name": "<name>"
        <<6, 6>> >>                     \* "file": "f.js"
    \o (IF doc.has_raw THEN << <<5, 42>> >> ELSE <<>>)  \* "raw": "<40 chars>"

RECURSIVE SumKV(_)
SumKV(f) == IF f = <<>> THEN 0 ELSE Head(f)[1] + Head(f)[2] + SumKV(Tail(f))

\* len(json.dumps(doc).encode('utf-8')): separators ', ' and ': '
doc_size(doc) ==
    LET f == Fields(doc) IN 2 + SumKV(f) + 2 * Len(f) + 2 * (Len(f) - 1)

\* one document under separators=(',', ':')
CompactSize(doc) ==
    LET f == Fields(doc) IN 2 + SumKV(f) + Len(f) + (Len(f) - 1)

RECURSIVE SumCompact(_)
SumCompact(b) == IF b = <<>> THEN 0 ELSE CompactSize(Head(b)) + SumCompact(Tail(b))

\* the bytes json.dump(current_batch, f_out, separators=(',', ':')) writes
SerializedSize(b) ==
    IF b = <<>> THEN 2 ELSE 2 + SumCompact(b) + (Len(b) - 1)

\* max_size_bytes = max_size_mb * 1024 * 1024, here in bytes
MaxSizeChoices == {30, 37, 45, 90, 200}

\* (mutant: the size of the arriving document is left out of the test)
MustFlushIgnoringDoc(cs, ds, mx, batch) == cs > mx /\ batch # <<>>

\* if current_size + doc_size > max_size_bytes and current_batch
MustFlush(cs, ds, mx, batch) == cs + ds > mx /\ batch # <<>>

\* (mutant: the part number is not advanced)
NextPartNumSame(n) == n

\* part_num += 1
NextPartNum(n) == n + 1

\* json.dump(current_batch) to component_docs_part_<part_num>.json
WritePart(files, n, batch) == (n :> batch) @@ files

InitPartition ==
    /\ \E shapes \in SeqsUpTo(DocShape, MaxDocs) :
        in_docs = [i \in 1..Len(shapes) |->
                    [id |-> i, name_len |-> shapes[i].name_len,
                     has_raw |-> shapes[i].has_raw]]
    /\ max_size_bytes \in MaxSizeChoices
    /\ pdi = 1
    /\ part_num = 1
    /\ current_batch = <<>>
    /\ current_size = 0
    /\ part_files = <<>>
    /\ ppc = "loop"

IdlePartition ==
    /\ in_docs = <<>> /\ max_size_bytes = 0 /\ pdi = 1 /\ part_num = 1
    /\ current_batch = <<>> /\ current_size = 0 /\ part_files = <<>>
    /\ ppc = "idle"

\* one iteration of `for doc in docs` that does not flush
AddDoc ==
    /\ ppc = "loop"
    /\ pdi <= Len(in_docs)
    /\ ~MustFlush(current_size, doc_size(in_docs[pdi]), max_size_bytes, current_batch)
    /\ current_batch' = Append(current_batch, in_docs[pdi])
    /\ current_size' = current_size + doc_size(in_docs[pdi])
    /\ pdi' = pdi + 1
    /\ UNCHANGED <<in_docs, max_size_bytes, part_num, part_files, ppc, partOthers>>

\* one iteration of `for doc in docs` that writes the current batch first
FlushAndAddDoc ==
    /\ ppc = "loop"
    /\ pdi <= Len(in_docs)
    /\ MustFlush(current_size, doc_size(in_docs[pdi]), max_size_bytes, current_batch)
    /\ part_files' = WritePart(part_files, part_num, current_batch)
    /\ part_num' = NextPartNum(part_num)
    /\ current_batch' = <<in_docs[pdi]>>
    /\ current_size' = doc_size(in_docs[pdi])
    /\ pdi' = pdi + 1
    /\ UNCHANGED <<in_docs, max_size_bytes, ppc, partOthers>>

\* after the loop: if current_batch: write the final batch
WriteFinalBatch ==
    /\ ppc = "loop"
    /\ pdi > Len(in_docs)
    /\ part_files' =
            IF current_batch # <<>>
            THEN WritePart(part_files, part_num, current_batch)
            ELSE part_files
    /\ ppc' = "done"
    /\ UNCHANGED <<in_docs, max_size_bytes, pdi, part_num, current_batch,
                   current_size, partOthers>>

NextPartition == AddDoc \/ FlushAndAddDoc \/ WriteFinalBatch

(***************************************************************************)
(* Claims about split_file_by_size.                                        *)
(***************************************************************************)
RECURSIVE ConcatParts(_, _, _)
ConcatParts(files, k, n) ==
    IF k > n THEN <<>> ELSE files[k] \o ConcatParts(files, k + 1, n)

\* C9: the partitions written are numbered 1..n, none of them is empty, and
\* their documents, concatenated in partition order, are the input document
\* sequence.
C9_PartitionsReproduceInput ==
    ppc = "done" =>
        \E n \in 0..Len(in_docs) :
            /\ DOMAIN part_files = 1..n
            /\ \A k \in 1..n : part_files[k] # <<>>
            /\ ConcatParts(part_files, 1, n) = in_docs

\* C9 witness: the input was cut into at least two partitions, one of them
\* with several documents.
C9_Witness ==
    /\ ppc = "done"
    /\ Cardinality(DOMAIN part_files) >= 2
    /\ \E k \in DOMAIN part_files : Len(part_files[k]) >= 2

Digits == <<"0", "1", "2", "3", "4", "5", "6", "7", "8", "9">>

RECURSIVE Dec(_)
Dec(i) ==
    IF i < 10 THEN <<Digits[i + 1]>>
    ELSE Dec(i \div 10) \o <<Digits[(i % 10) + 1]>>

\* ids.append(f"chunk_{i}")
StoreId(i) == <<"chunk", "_">> \o Dec(i)

\* the chunk_id of the k-th fragment (from 0) of a fragment file: the
\* streaming processor writes f"chunk_{start_idx + i}", the fragment
\* mapper f"{component_id}_basic"
ChunkIdOf(ch, k) ==
    IF ch = "process_single_component" THEN <<"chunk", "_">> \o Dec(k)
    ELSE <<"c">> \o Dec(k) \o <<"_", "basic">>

\* a fragment of a fragment file; `run` tells the chunking run that wrote it
Fragment(ch, k, run) == [chunk_id |-> ChunkIdOf(ch, k), run |-> run]

\* the fragment file of a chunking run with n fragments
FragmentFile(ch, n, run) == [k \in 1..n |-> Fragment(ch, k - 1, run)]

\* what build_index makes of chunk i: id f"chunk_{i}", and as metadata
\* every key of the chunk but "text"
RecordOf(i, chunk) == [id |-> StoreId(i), chunk_id |-> chunk.chunk_id, run |-> chunk.run]

\* the records of a build over a fragment file
RecordsOf(file) == {RecordOf(k - 1, file[k]) : k \in 1..Len(file)}

Ids(coll) == {r.id : r \in coll}

\* collection.add of a store that ignores the ids it already holds
AddIgnoring(coll, batch) ==
    coll \cup {r \in batch : r.id \notin Ids(coll)}

\* range(0, len(texts), batch_size): texts[i:batch_end], ids[i:batch_end]
Batch(file, i, bs) ==
    {RecordOf(k - 1, file[k]) : k \in (i + 1)..Min(i + bs, Len(file))}

InitIndex ==
    /\ indexer \in {"chroma", "faiss"}
    /\ chunker \in {"process_single_component", "extract_component_chunks"}
    /\ \E n \in 0..MaxFrags : chunks_file = FragmentFile(chunker, n, "new")
    /\ batch_size \in 1..MaxBatch
    \* an add of an id the collection holds is ignored or raises, by the
    \* version of the store
    /\ dup_add \in {"ignore", "raise"}
    /\ \E m \in 0..MaxOld :
        /\ collection =
            IF indexer = "chroma"
            THEN RecordsOf(FragmentFile(chunker, m, "old")) ELSE {}
        /\ index_file =
            IF indexer = "faiss" THEN FragmentFile(chunker, m, "old") ELSE <<>>
        /\ meta_file =
            IF indexer = "faiss" THEN FragmentFile(chunker, m, "old") ELSE <<>>
    /\ ix_chunks = <<>>
    /\ ix_i = 0
    /\ ix_exc = "none"
    /\ ixpc = "load"

IdleIndex ==
    /\ indexer = "chroma" /\ chunker = "process_single_component"
    /\ chunks_file = <<>> /\ batch_size = 1 /\ dup_add = "ignore"
    /\ collection = {} /\ ix_chunks = <<>> /\ ix_i = 0
    /\ index_file = <<>> /\ meta_file = <<>>
    /\ ix_exc = "none" /\ ixpc = "idle"

indexInputs == <<indexer, chunker, chunks_file, batch_size, dup_add>>

\* with open(CHUNKS_FILE) as f: chunks = json.load(f);
\* collection = self._get_collection()  (created, or the existing one)
LoadChunks ==
    /\ ixpc = "load"
    /\ indexer = "chroma"
    /\ ix_chunks' = chunks_file
    /\ ixpc' = "clear"
    /\ UNCHANGED <<indexInputs, collection, ix_i, index_file, meta_file,
                   ix_exc, indexOthers>>

\* existing = collection.get(); if existing['ids']: collection.delete(...)
ClearExisting ==
    /\ ixpc = "clear"
    /\ collection' = {}
    /\ ix_i' = 0
    /\ ixpc' = "add"
    /\ UNCHANGED <<indexInputs, ix_chunks, index_file, meta_file, ix_exc,
                   indexOthers>>

\* collection.get() or collection.delete() raises (the store is locked, the
\* ids exceed the largest batch the store accepts): `except: pass`
ClearFails ==
    /\ ixpc = "clear"
    /\ ix_i' = 0
    /\ ixpc' = "add"
    /\ UNCHANGED <<indexInputs, collection, ix_chunks, index_file, meta_file,
                   ix_exc, indexOthers>>

\* one iteration of the batch loop: collection.add(documents, metadatas, ids)
AddBatch ==
    /\ ixpc = "add"
    /\ ix_i < Len(ix_chunks)
    /\ LET batch == Batch(ix_chunks, ix_i, batch_size) IN
        /\ dup_add = "raise" => Ids(batch) \cap Ids(collection) = {}
        /\ collection' = AddIgnoring(collection, batch)
    /\ ix_i' = ix_i + batch_size
    /\ UNCHANGED <<indexInputs, ix_chunks, index_file, meta_file, ix_exc,
                   ixpc, indexOthers>>

\* collection.add raises for ids the collection holds: build_index is left
AddBatchDuplicate ==
    /\ ixpc = "add"
    /\ ix_i < Len(ix_chunks)
    /\ dup_add = "raise"
    /\ Ids(Batch(ix_chunks, ix_i, batch_size)) \cap Ids(collection) # {}
    /\ ix_exc' = "DuplicateIDError"
    /\ ixpc' = "failed"
    /\ UNCHANGED <<indexInputs, collection, ix_chunks, ix_i, index_file,
                   meta_file, indexOthers>>

\* the embedding of the batch or its insertion raises: build_index is left
AddBatchFails ==
    /\ ixpc = "add"
    /\ ix_i < Len(ix_chunks)
    /\ ix_exc' = "Exception"
    /\ ixpc' = "failed"
    /\ UNCHANGED <<indexInputs, collection, ix_chunks, ix_i, index_file,
                   meta_file, indexOthers>>

\* the batch loop is over: print(...); build_index returns
BuildDone ==
    /\ ixpc = "add"
    /\ ix_i >= Len(ix_chunks)
    /\ ixpc' = "done"
    /\ UNCHANGED <<indexInputs, collection, ix_chunks, ix_i, index_file,
                   meta_file, ix_exc, indexOthers>>

\* flat index: chunks = json.load(f); texts = [c["text"] for c in chunks]
FaissLoad ==
    /\ ixpc = "load"
    /\ indexer = "faiss"
    /\ ix_chunks' = chunks_file
    /\ ixpc' = "encode"
    /\ UNCHANGED <<indexInputs, collection, ix_i, index_file, meta_file,
                   ix_exc, indexOthers>>

\* embeddings = model.encode(texts, batch_size=batch_size);
\* normalize_L2; index = IndexFlatIP(d); index.add(embeddings): in memory
FaissEncode ==
    /\ ixpc = "encode"
    /\ ix_i' = Len(ix_chunks)
    /\ ixpc' = "write_index"
    /\ UNCHANGED <<indexInputs, collection, ix_chunks, index_file, meta_file,
                   ix_exc, indexOthers>>

\* model.encode raises on one of its batches: build_index is left
FaissEncodeFails ==
    /\ ixpc = "encode"
    /\ ix_chunks # <<>>
    /\ ix_exc' = "Exception"
    /\ ixpc' = "failed"
    /\ UNCHANGED <<indexInputs, collection, ix_chunks, ix_i, index_file,
                   meta_file, indexOthers>>

\* faiss.write_index(index, INDEX_FILE)
FaissWriteIndex ==
    /\ ixpc = "write_index"
    /\ index_file' = ix_chunks
    /\ ixpc' = "write_meta"
    /\ UNCHANGED <<indexInputs, collection, ix_chunks, ix_i, meta_file,
                   ix_exc, indexOthers>>

\* with open(META_FILE, 'w') as f: json.dump(chunks, f, indent=2)
FaissWriteMeta ==
    /\ ixpc = "write_meta"
    /\ meta_file' = ix_chunks
    /\ ixpc' = "done"
    /\ UNCHANGED <<indexInputs, collection, ix_chunks, ix_i, index_file,
                   ix_exc, indexOthers>>

NextIndex ==
    \/ LoadChunks \/ ClearExisting \/ ClearFails \/ AddBatch
    \/ AddBatchDuplicate \/ AddBatchFails \/ BuildDone
    \/ FaissLoad \/ FaissEncode \/ FaissEncodeFails \/ FaissWriteIndex
    \/ FaissWriteMeta

(***************************************************************************)
(* Claims about build_index.                                               *)
(***************************************************************************)
\* C14: after build_index has completed, the collection holds exactly one
\* record per fragment of the current fragment file and no record of an
\* earlier build, whatever it held before and also when clearing failed
\* (for the flat index: the index file and the metadata file are those of
\* the current fragment file).
C14_FullReplace ==
    ixpc = "done" =>
        IF indexer = "chroma"
        THEN /\ \A r \in collection : r.run = "new"
             /\ \A k \in 1..Len(chunks_file) :
                    Cardinality({r \in collection :
                                    r.chunk_id = chunks_file[k].chunk_id}) = 1
             /\ Cardinality(collection) = Len(chunks_file)
        ELSE index_file = chunks_file /\ meta_file = chunks_file

\* C15: when the embedding or the insertion of a batch fails, build_index
\* is left with an error and nothing of the build is committed: the
\* collection does not hold the batches inserted before the failure.
C15_NoPartialIndex ==
    ixpc = "failed" =>
        /\ ix_exc # "none"
        /\ \A r \in collection : r.run # "new"
        /\ \A k \in 1..Len(index_file) : index_file[k].run # "new"

\* C16: every record build_index inserts is keyed by the chunk_id of its
\* fragment: the store id equals the chunk_id in the record's metadata.
C16_KeyedByChunkId ==
    \A r \in collection : r.run = "new" => r.id = r.chunk_id

(***************************************************************************)
(* The entry points that invoke the extractor: main of pipeline_cli,       *)
(* emergency_process and create_chunks.                                    *)
(***************************************************************************)
EntryPoints == {"main", "emergency_process", "create_chunks"}

\* if returncode != 0 / if result.returncode == 0 ... return False
\* (mutant: the exit code is not looked at)
ExtractorFailedNever(rc) == FALSE
ExtractorFailed(rc) == rc # 0

\* how each entry point ends when the extractor failed: main prints
\* "Extraction failed." and returns, emergency_process raises
\* SystemExit(1), create_chunks raises RuntimeError
ExtractorFailure(ep) ==
    IF ep = "main" THEN "aborted"
    ELSE IF ep = "emergency_process" THEN "SystemExit" ELSE "RuntimeError"

\* an item of the component list as extract_component_chunks sees it: well
\* formed, with a field of a wrong type (description: 5), not an object
ComponentShapes == {"ok", "bad_field", "not_an_object"}

\* if max_components: components = components[:max_components]
Truncated(cs, mx) == IF mx # None /\ mx # 0 THEN Slice(cs, 0, mx) ELSE cs

InitRun ==
    /\ entry_point \in EntryPoints
    /\ input_was_present \in BOOLEAN
    /\ docs_present = input_was_present
    \* only create_chunks looks for the extractor script
    /\ script_present \in
        (IF entry_point = "create_chunks" THEN BOOLEAN ELSE {TRUE})
    \* what the extractor does when it is run: its exit code, and whether
    \* it leaves component_docs.json behind
    /\ extractor_rc \in {0, 1}
    /\ extractor_writes \in BOOLEAN
    /\ chunks_present \in (IF entry_point = "main" THEN BOOLEAN ELSE {FALSE})
    /\ ingest_rc \in (IF entry_point = "main" THEN {0, 1} ELSE {0})
    /\ components \in
        (IF entry_point = "create_chunks"
         THEN SeqsUpTo(ComponentShapes, MaxComponents) ELSE {<<>>})
    /\ cc_max \in
        (IF entry_point = "create_chunks"
         THEN {None} \cup (0..MaxComponents) ELSE {None})
    /\ extractor_runs = 0
    /\ exists_checks = 0
    /\ stages = {}
    /\ all_chunks = <<>>
    /\ cc_i = 0
    /\ output_written = FALSE
    /\ outcome = "running"
    /\ rpc = "start"

IdleRun ==
    /\ entry_point = "main" /\ input_was_present = FALSE
    /\ docs_present = FALSE /\ script_present = TRUE /\ extractor_rc = 0
    /\ extractor_writes = FALSE /\ chunks_present = FALSE /\ ingest_rc = 0
    /\ components = <<>> /\ cc_max = None /\ extractor_runs = 0
    /\ exists_checks = 0 /\ stages = {} /\ all_chunks = <<>> /\ cc_i = 0
    /\ output_written = FALSE /\ outcome = "running" /\ rpc = "idle"

runInputs ==
    <<entry_point, input_was_present, script_present, extractor_rc,
      extractor_writes, ingest_rc, components, cc_max>>

\* where an entry point goes once the input file is known to be there
AfterGate(ep) ==
    IF ep = "main" THEN "ingest_and_chunk"
    ELSE IF ep = "emergency_process" THEN "process" ELSE "load"

\* the first existence check finds the input file
InputFound ==
    /\ rpc = "start"
    /\ docs_present
    /\ exists_checks' = exists_checks + 1
    /\ rpc' = AfterGate(entry_point)
    /\ UNCHANGED <<runInputs, docs_present, chunks_present, extractor_runs,
                   stages, all_chunks, cc_i, output_written, outcome,
                   runOthers>>

\* the first existence check fails: the extractor is to be run
InputMissing ==
    /\ rpc = "start"
    /\ ~docs_present
    /\ script_present
    /\ exists_checks' = exists_checks + 1
    /\ rpc' = "extract"
    /\ UNCHANGED <<runInputs, docs_present, chunks_present, extractor_runs,
                   stages, all_chunks, cc_i, output_written, outcome,
                   runOthers>>

\* create_chunks: the input is missing and so is the extractor script:
\* raise FileNotFoundError
ScriptMissing ==
    /\ rpc = "start"
    /\ ~docs_present
    /\ ~script_present
    /\ exists_checks' = exists_checks + 1
    /\ outcome' = "FileNotFoundError"
    /\ rpc' = "exited"
    /\ UNCHANGED <<runInputs, docs_present, chunks_present, extractor_runs,
                   stages, all_chunks, cc_i, output_written, runOthers>>

\* subprocess.run / subprocess.Popen of the extractor, up to its exit
RunExtractor ==
    /\ rpc = "extract"
    /\ extractor_runs' = extractor_runs + 1
    /\ docs_present' = (docs_present \/ extractor_writes)
    /\ rpc' = "check_rc"
    /\ UNCHANGED <<runInputs, chunks_present, exists_checks, stages,
                   all_chunks, cc_i, output_written, outcome, runOthers>>

\* the exit code is not zero: the entry point ends with its failure
ExtractorExitFailure ==
    /\ rpc = "check_rc"
    /\ ExtractorFailed(extractor_rc)
    /\ outcome' = ExtractorFailure(entry_point)
    /\ rpc' = "exited"
    /\ UNCHANGED <<runInputs, docs_present, chunks_present, extractor_runs,
                   exists_checks, stages, all_chunks, cc_i, output_written,
                   runOthers>>

\* the exit code is zero; extract_repo of main returns True without looking
\* for the file again, the two others go on to their second check
ExtractorExitOk ==
    /\ rpc = "check_rc"
    /\ ~ExtractorFailed(extractor_rc)
    /\ rpc' = IF entry_point = "main" THEN AfterGate(entry_point) ELSE "recheck"
    /\ UNCHANGED <<runInputs, docs_present, chunks_present, extractor_runs,
                   exists_checks, stages, all_chunks, cc_i, output_written,
                   outcome, runOthers>>

\* the second existence check finds the file
RecheckFound ==
    /\ rpc = "recheck"
    /\ docs_present
    /\ exists_checks' = exists_checks + 1
    /\ rpc' = AfterGate(entry_point)
    /\ UNCHANGED <<runInputs, docs_present, chunks_present, extractor_runs,
                   stages, all_chunks, cc_i, output_written, outcome,
                   runOthers>>

\* the file is still missing: emergency_process prints "Emergency
\* processing aborted." and returns, create_chunks raises FileNotFoundError
RecheckMissing ==
    /\ rpc = "recheck"
    /\ ~docs_present
    /\ exists_checks' = exists_checks + 1
    /\ outcome' =
        IF entry_point = "emergency_process" THEN "aborted"
        ELSE "FileNotFoundError"
    /\ rpc' = "exited"
    /\ UNCHANGED <<runInputs, docs_present, chunks_present, extractor_runs,
                   stages, all_chunks, cc_i, output_written, runOthers>>

\* main: ingest_and_chunk finds component_chunks.json and skips the step
IngestSkipped ==
    /\ rpc = "ingest_and_chunk"
    /\ chunks_present
    /\ rpc' = "prompt_indexing"
    /\ UNCHANGED <<runInputs, docs_present, chunks_present, extractor_runs,
                   exists_checks, stages, all_chunks, cc_i, output_written,
                   outcome, runOthers>>

\* main: ingest_and_chunk runs `python3 ingest_components.py`; a non-zero
\* exit code ends main.  What the child leaves behind is its own affair.
IngestAndChunk ==
    /\ rpc = "ingest_and_chunk"
    /\ ~chunks_present
    /\ stages' = stages \cup {"ingest", "chunk"}
    /\ \E w \in BOOLEAN :
        /\ chunks_present' = w
        /\ output_written' = w
    /\ IF ingest_rc = 0
       THEN rpc' = "prompt_indexing" /\ outcome' = outcome
       ELSE rpc' = "exited" /\ outcome' = "aborted"
    /\ UNCHANGED <<runInputs, docs_present, extractor_runs, exists_checks,
                   all_chunks, cc_i, runOthers>>

\* main: prompt_indexing; on 'y' it runs `python3 index_components.py` and
\* goes on whatever its exit code
PromptIndexing ==
    /\ rpc = "prompt_indexing"
    /\ \E choice \in {"y", "n"} :
        stages' = IF choice = "y" THEN stages \cup {"index"} ELSE stages
    /\ rpc' = "prompt_query"
    /\ UNCHANGED <<runInputs, docs_present, chunks_present, extractor_runs,
                   exists_checks, all_chunks, cc_i, output_written, outcome,
                   runOthers>>

\* main: prompt_query runs `python3 query_cli.py query ...`; main returns
PromptQuery ==
    /\ rpc = "prompt_query"
    /\ stages' = stages \cup {"query"}
    /\ outcome' = "ok"
    /\ rpc' = "exited"
    /\ UNCHANGED <<runInputs, docs_present, chunks_present, extractor_runs,
                   exists_checks, all_chunks, cc_i, output_written, runOthers>>

\* emergency_process: the try block (split_file_by_size for a large file,
\* minimal_ingest); an Exception of it is printed, then the return
EmergencyIngest ==
    /\ rpc = "process"
    /\ stages' = stages \cup {"ingest", "chunk"}
    /\ \E w \in BOOLEAN : output_written' = w
    /\ outcome' = "ok"
    /\ rpc' = "exited"
    /\ UNCHANGED <<runInputs, docs_present, chunks_present, extractor_runs,
                   exists_checks, all_chunks, cc_i, runOthers>>

\* create_chunks: components = json.load(f); the truncation; all_chunks = []
LoadComponents ==
    /\ rpc = "load"
    /\ stages' = stages \cup {"ingest"}
    /\ all_chunks' = <<>>
    /\ cc_i' = 0
    /\ rpc' = "loop"
    /\ UNCHANGED <<runInputs, docs_present, chunks_present, extractor_runs,
                   exists_checks, output_written, outcome, runOthers>>

\* create_chunks: one iteration of `for i, component in enumerate(...)` on
\* an object: its fragments are added, or the exception of a wrongly typed
\* field is printed and the component skipped
CreateStep ==
    /\ rpc = "loop"
    /\ cc_i < Len(Truncated(components, cc_max))
    /\ components[cc_i + 1] # "not_an_object"
    /\ stages' = stages \cup {"chunk"}
    /\ all_chunks' =
        IF components[cc_i + 1] = "ok"
        THEN Append(all_chunks, [component_id |-> cc_i + 1, chunk_type |-> "basic_info"])
        ELSE all_chunks
    /\ cc_i' = cc_i + 1
    /\ UNCHANGED <<runInputs, docs_present, chunks_present, extractor_runs,
                   exists_checks, output_written, outcome, rpc, runOthers>>

\* create_chunks: the item is not an object: component.get raises in
\* extract_component_chunks and again in the handler's print
CreateStepRaises ==
    /\ rpc = "loop"
    /\ cc_i < Len(Truncated(components, cc_max))
    /\ components[cc_i + 1] = "not_an_object"
    /\ stages' = stages \cup {"chunk"}
    /\ outcome' = "AttributeError"
    /\ rpc' = "exited"
    /\ UNCHANGED <<runInputs, docs_present, chunks_present, extractor_runs,
                   exists_checks, all_chunks, cc_i, output_written, runOthers>>

\* create_chunks: json.dump(all_chunks, f, ...) to the output path
WriteChunksFile ==
    /\ rpc = "loop"
    /\ cc_i >= Len(Truncated(components, cc_max))
    /\ output_written' = TRUE
    /\ outcome' = "ok"
    /\ rpc' = "exited"
    /\ UNCHANGED <<runInputs, docs_present, chunks_present, extractor_runs,
                   exists_checks, stages, all_chunks, cc_i, runOthers>>

NextRun ==
    \/ InputFound \/ InputMissing \/ ScriptMissing \/ RunExtractor
    \/ ExtractorExitFailure \/ ExtractorExitOk \/ RecheckFound
    \/ RecheckMissing \/ IngestSkipped \/ IngestAndChunk \/ PromptIndexing
    \/ PromptQuery \/ EmergencyIngest \/ LoadComponents \/ CreateStep
    \/ CreateStepRaises \/ WriteChunksFile

(***************************************************************************)
(* Claims about the extractor gate.                                        *)
(***************************************************************************)
\* the ways a run ends with a failure: an exception, SystemExit(1), or the
\* printed abort followed by the return
Failures ==
    {"aborted", "SystemExit", "RuntimeError", "FileNotFoundError",
     "AttributeError"}

\* C17: in each of the three entry points, once the extractor has exited
\* with a non-zero code nothing is ingested, chunked, indexed or queried
\* and no fragment file is written, and the run ends with a failure.
C17_ExtractorFailureAborts ==
    (extractor_runs > 0 /\ extractor_rc # 0) =>
        /\ stages = {}
        /\ ~output_written
        /\ rpc \in {"check_rc", "exited"}
        /\ rpc = "exited" => outcome \in Failures

\* C17 witness: the extractor left the input file behind and exited with a
\* non-zero code, and the run has ended.
C17_Witness ==
    /\ rpc = "exited"
    /\ extractor_runs = 1
    /\ extractor_rc # 0
    /\ docs_present
    /\ outcome = ExtractorFailure(entry_point)

\* C18: when the input file is absent at the start (and the extractor is
\* there to be run), a finished run has invoked the extractor exactly once;
\* if the extractor succeeded the existence check was made a second time;
\* and if the file is still absent the run has ended with a failure,
\* nothing was ingested, chunked, indexed or queried, and no fragment file
\* was written.
C18_MissingInputRetriedOnce ==
    (rpc = "exited" /\ ~input_was_present /\ script_present) =>
        /\ extractor_runs = 1
        /\ extractor_rc = 0 => exists_checks = 2
        /\ ~docs_present =>
            /\ outcome \in Failures
            /\ stages = {}
            /\ ~output_written

(***************************************************************************)
(* clean_text: the text normalizer.                                        *)
(***************************************************************************)
\* the characters of a text, as a sequence
Chars(w) ==
    CASE w = "export" -> <<"e", "x", "p", "o", "r", "t">>
      [] w = "ex" -> <<"e", "x">>
      [] w = "port" -> <<"p", "o", "r", "t">>
      [] w = "default" -> <<"d", "e", "f", "a", "u", "l", "t">>
      [] w = "import" -> <<"i", "m", "p", "o", "r", "t">>
      [] w = "from" -> <<"f", "r", "o", "m">>
      [] w = "React." -> <<"R", "e", "a", "c", "t", ".">>
      [] w = "React.F" -> <<"R", "e", "a", "c", "t", ".", "F">>
      [] OTHER -> <<w>>

\* \w, ["\'], and the test of one character at a position (1-based)
WordChars ==
    {"a", "c", "d", "e", "f", "i", "l", "m", "o", "p", "r", "t", "u", "x",
     "F", "R"}
Quotes == {"'", "\""}

\* s[i:] starts with the literal lit
StartsAt(s, i, lit) ==
    /\ i + Len(lit) - 1 <= Len(s)
    /\ SubSeq(s, i, i + Len(lit) - 1) = lit

\* the position after the longest run of characters of C that starts at i
RECURSIVE RunEnd(_, _, _)
RunEnd(s, i, C) ==
    IF i <= Len(s) /\ s[i] \in C THEN RunEnd(s, i + 1, C) ELSE i

\* the first position >= i whose character is in C, 0 when there is none
RECURSIVE FirstIn(_, _, _)
FirstIn(s, i, C) ==
    IF i > Len(s) THEN 0
    ELSE IF s[i] \in C THEN i ELSE FirstIn(s, i + 1, C)

\* from\s+["\'] at position j: the position of the quote, or 0
FromQuoteAt(s, j) ==
    IF ~StartsAt(s, j, Chars("from")) THEN 0
    ELSE LET w == RunEnd(s, j + 4, Whitespace) IN
        IF w > j + 4 /\ w <= Len(s) /\ s[w] \in Quotes THEN w ELSE 0

\* the first position j >= i with from\s+["\'] at j: the position of its
\* quote, or 0
RECURSIVE FirstFromQuote(_, _)
FirstFromQuote(s, j) ==
    IF j > Len(s) THEN 0
    ELSE IF FromQuoteAt(s, j) # 0 THEN FromQuoteAt(s, j)
    ELSE FirstFromQuote(s, j + 1)

\* Each matcher gives the position after the match of its pattern at
\* position i, or 0 when the pattern does not match there.

\* import\s+.*?from\s+["\'].*?["\'];?
MatchImport(s, i) ==
    IF ~StartsAt(s, i, Chars("import")) THEN 0
    ELSE IF ~(i + 6 <= Len(s) /\ s[i + 6] \in Whitespace) THEN 0
    ELSE LET q == FirstFromQuote(s, i + 7) IN
        IF q = 0 THEN 0
        ELSE LET q2 == FirstIn(s, q + 1, Quotes) IN
            IF q2 = 0 THEN 0
            ELSE IF q2 + 1 <= Len(s) /\ s[q2 + 1] = ";" THEN q2 + 2
            ELSE q2 + 1

\* export\s+(default\s+)?
MatchExport(s, i) ==
    IF ~StartsAt(s, i, Chars("export")) THEN 0
    ELSE LET w == RunEnd(s, i + 6, Whitespace) IN
        IF w = i + 6 THEN 0
        ELSE IF StartsAt(s, w, Chars("default"))
                /\ RunEnd(s, w + 7, Whitespace) > w + 7
        THEN RunEnd(s, w + 7, Whitespace)
        ELSE w

\* React\.\w+ at position i: the position after it, or 0
ReactWordAt(s, i) ==
    IF ~StartsAt(s, i, Chars("React.")) THEN 0
    ELSE LET w == RunEnd(s, i + 6, WordChars) IN
        IF w = i + 6 THEN 0 ELSE w

\* :\s*React\.\w+
MatchAnnotation(s, i) ==
    IF ~StartsAt(s, i, <<":">>) THEN 0
    ELSE ReactWordAt(s, RunEnd(s, i + 1, Whitespace))

\* React\.\w+<.*?>
MatchGeneric(s, i) ==
    LET w == ReactWordAt(s, i) IN
        IF w = 0 THEN 0
        ELSE IF ~(w <= Len(s) /\ s[w] = "<") THEN 0
        ELSE LET g == FirstIn(s, w + 1, {">"}) IN
            IF g = 0 THEN 0 ELSE g + 1

\* the pattern of each re.sub that deletes
Match(pat, s, i) ==
    CASE pat = "import" -> MatchImport(s, i)
      [] pat = "export" -> MatchExport(s, i)
      [] pat = "annotation" -> MatchAnnotation(s, i)
      [] pat = "generic" -> MatchGeneric(s, i)

\* re.sub(pattern, '', text): the matches are looked for from left to
\* right, each search starting where the last match ended
RECURSIVE Remove(_, _, _)
Remove(pat, s, i) ==
    IF i > Len(s) THEN <<>>
    ELSE IF Match(pat, s, i) # 0 THEN Remove(pat, s, Match(pat, s, i))
    ELSE <<s[i]>> \o Remove(pat, s, i + 1)

\* re.sub(r'\s+', ' ', text)
RECURSIVE CollapseWhitespace(_, _)
CollapseWhitespace(s, i) ==
    IF i > Len(s) THEN <<>>
    ELSE IF s[i] \in Whitespace
         THEN <<" ">> \o CollapseWhitespace(s, RunEnd(s, i, Whitespace))
         ELSE <<s[i]>> \o CollapseWhitespace(s, i + 1)

\* clean_text of a non-empty string
clean_text(t) ==
    LET t1 == CollapseWhitespace(Strip(t), 1)
        t2 == Remove("import", t1, 1)
        t3 == Remove("export", t2, 1)
        t4 == Remove("annotation", t3, 1)
        t5 == Remove("generic", t4, 1)
    IN Strip(t5)

\* the pieces the texts of the model are made of: "export ", "default ",
\* "ex", "port ", "a", " : React.F ", " React.F<a> ",
\* " import a from 'm'; "
Sp == <<" ">>
Pieces ==
    {Chars("export") \o Sp,
     Chars("default") \o Sp,
     Chars("ex"),
     Chars("port") \o Sp,
     <<"a">>,
     Sp \o <<":">> \o Sp \o Chars("React.F") \o Sp,
     Sp \o Chars("React.F") \o <<"<", "a", ">">> \o Sp,
     Sp \o Chars("import") \o Sp \o <<"a">> \o Sp \o Chars("from") \o Sp
        \o <<"'", "m", "'", ";">> \o Sp}

RECURSIVE Concat(_)
Concat(ps) == IF ps = <<>> THEN <<>> ELSE Head(ps) \o Concat(Tail(ps))

InitClean ==
    /\ text_is_none \in BOOLEAN
    /\ raw_text \in
        (IF text_is_none THEN {<<>>}
         ELSE {Concat(ws) : ws \in SeqsUpTo(Pieces, MaxPieces)})
    /\ cleaned = <<>>
    /\ cleaned_again = <<>>
    /\ npc = "call"

IdleClean ==
    /\ text_is_none = TRUE /\ raw_text = <<>> /\ cleaned = <<>>
    /\ cleaned_again = <<>> /\ npc = "idle"

\* clean_text(None), clean_text(""): if not text: return ""
CleanNothing ==
    /\ npc = "call"
    /\ text_is_none \/ raw_text = <<>>
    /\ cleaned' = <<>>
    /\ npc' = "once"
    /\ UNCHANGED <<text_is_none, raw_text, cleaned_again, cleanOthers>>

\* clean_text(text) of a non-empty string
CleanText ==
    /\ npc = "call"
    /\ ~text_is_none /\ raw_text # <<>>
    /\ cleaned' = clean_text(raw_text)
    /\ npc' = "once"
    /\ UNCHANGED <<text_is_none, raw_text, cleaned_again, cleanOthers>>

\* clean_text applied to its own result
CleanAgain ==
    /\ npc = "once"
    /\ cleaned_again' = IF cleaned = <<>> THEN <<>> ELSE clean_text(cleaned)
    /\ npc' = "twice"
    /\ UNCHANGED <<text_is_none, raw_text, cleaned, cleanOthers>>

NextClean == CleanNothing \/ CleanText \/ CleanAgain

(***************************************************************************)
(* Claims about clean_text.                                                *)
(***************************************************************************)
\* C20: the normalizer is idempotent, normalize(normalize(x)) =
\* normalize(x) for every string x, also when the removal of a pattern
\* leaves whitespace side by side or exposes a new removable pattern, and
\* empty or None input yields the empty string.
C20_NormalizeIdempotent ==
    /\ npc = "twice" => cleaned_again = cleaned
    /\ (npc \in {"once", "twice"} /\ (text_is_none \/ raw_text = <<>>)) =>
            cleaned = <<>>

(***************************************************************************)
(* The document-to-fragments mappers: extract_component_chunks             *)
(* (src/bckup/latest/ingest_components.py) and process_single_component    *)
(* (src/bckup/ingest_components.py).                                       *)
(***************************************************************************)
\* A field of a document is absent, null, or a string.
Absent == [shape |-> "absent", text |-> <<>>]
Null == [shape |-> "null", text |-> <<>>]
Str(t) == [shape |-> "str", text |-> t]
Field(texts) == {Absent, Null} \cup {Str(t) : t \in texts}

\* dict.get(key, default): the default only when the key is absent
Get(f, default) == IF f.shape = "absent" THEN default ELSE f
\* the truth value of a field's value
Truthy(f) == f.shape = "str" /\ f.text # <<>>

\* descriptions: "", "a", and ": React.F", which clean_text reduces to ""
DescTexts == {<<>>, <<"a">>, <<":">> \o Sp \o Chars("React.F")}
\* props: absent, null, {} or an object with one property
PropsShapes == {"absent", "null", "empty", "dict"}
\* raw: absent, null, "", a text whose strip() is shorter than 50, a text
\* whose cleaned form is at most 600 long, and a longer one, which
\* split_code cuts into code_parts pieces (none when the text holds only
\* delimiters)
RawShapes == {"absent", "null", "empty", "short", "snippet", "long"}
Component ==
    [name : Field({<<"n">>}), description : Field(DescTexts),
     props : PropsShapes, raw : RawShapes, file : Field({<<>>, <<"f">>})]

Unknown == Str(<<"U", "n", "k", "n", "o", "w", "n">>)

MapFragment(type, name, parts) ==
    [chunk_type |-> type, component_name |-> name, parts |-> parts]

\* if component.get('description'): desc = self.clean_text(...); if desc:
HasDescription(c) ==
    Truthy(c.description) /\ clean_text(c.description.text) # <<>>

\* the basic_info fragment: "Component: ..." | "Description: ..." |
\* "Location: ..."
BasicInfo(c) ==
    MapFragment("basic_info", Get(c.name, Unknown),
        {"Component"}
        \cup (IF HasDescription(c) THEN {"Description"} ELSE {})
        \cup (IF Truthy(Get(c.file, Str(<<>>))) THEN {"Location"} ELSE {}))

\* if component.get('props') and isinstance(component['props'], dict):
PropsInfo(c) ==
    IF c.props = "dict"
    THEN <<MapFragment("props", Get(c.name, Unknown), {"props"})>>
    ELSE <<>>

\* process_code_snippet: nothing for a missing or short snippet, one
\* fragment up to 600 characters, one per piece of split_code beyond
process_code_snippet(c, parts) ==
    CASE c.raw \in {"absent", "null", "empty", "short"} -> <<>>
      [] c.raw = "snippet" ->
            <<MapFragment("code", Get(c.name, Unknown), {"implementation"})>>
      [] c.raw = "long" ->
            [i \in 1..parts |->
                MapFragment("code", Get(c.name, Unknown), {"code part"})]

extract_component_chunks(c, parts) ==
    <<BasicInfo(c)>> \o PropsInfo(c) \o process_code_snippet(c, parts)

\* the document as process_single_component reads it: name =
\* doc.get('name', 'Unknown')[:100] raises on null; the text handed to
\* chunk_text always starts with "Component: "
AsIngestDoc(c) ==
    [name |-> IF c.name.shape = "null" THEN "null"
              ELSE IF c.name.shape = "absent" THEN "absent" ELSE "str",
     raw |-> IF c.raw \in {"short", "snippet", "long"} THEN <<"b">> ELSE <<>>]

\* the exception process_single_component catches and prints
CaughtBy(c) ==
    IF c.name.shape = "null" THEN "TypeError"
    ELSE IF ~chunk_text(BigText(AsIngestDoc(c)), ProcMaxChars,
                        ProcOverlap).returned
         THEN "MemoryError"
         ELSE "none"

InitMap ==
    /\ mapper \in {"latest", "bckup"}
    /\ component \in Component
    /\ code_parts \in
        (IF mapper = "latest" /\ component.raw = "long"
         THEN 0..MaxParts ELSE {0})
    /\ m_chunks = <<>>
    /\ m_error = "none"
    /\ mpc = "call"

IdleMap ==
    /\ mapper = "latest"
    /\ component = [name |-> Absent, description |-> Absent,
                    props |-> "absent", raw |-> "absent", file |-> Absent]
    /\ code_parts = 0 /\ m_chunks = <<>> /\ m_error = "none" /\ mpc = "idle"

mapInputs == <<mapper, component, code_parts>>

\* extract_component_chunks(component) returns its fragments
ExtractComponentChunks ==
    /\ mpc = "call"
    /\ mapper = "latest"
    /\ m_chunks' = extract_component_chunks(component, code_parts)
    /\ mpc' = "returned"
    /\ UNCHANGED <<mapInputs, m_error, mapOthers>>

\* process_single_component(doc, ...) returns the number of fragments it
\* wrote
ProcessSingleComponent ==
    /\ mpc = "call"
    /\ mapper = "bckup"
    /\ LET r == process_single_component(AsIngestDoc(component), 1, <<>>,
                                         0, TRUE)
       IN m_chunks' =
            [i \in 1..r.written |->
                MapFragment("text", Get(component.name, Unknown), {"text"})]
    /\ m_error' = CaughtBy(component)
    /\ mpc' = "returned"
    /\ UNCHANGED <<mapInputs, mapOthers>>

NextMap == ExtractComponentChunks \/ ProcessSingleComponent

(***************************************************************************)
(* Claims about the mappers.                                               *)
(***************************************************************************)
FragmentsOfType(type) ==
    {i \in 1..Len(m_chunks) : m_chunks[i].chunk_type = type}
Lacks(f) == f.shape \in {"absent", "null"}

\* C21: the mapper never fails: for a document lacking description, props,
\* raw or file the corresponding fragments are omitted, and for a document
\* whose name is absent or null the fragments are still produced, with the
\* placeholder name "Unknown", instead of an error or a dropped document.
C21_MapperNeverFails ==
    mpc = "returned" =>
        /\ m_error = "none"
        /\ m_chunks # <<>>
        /\ Lacks(component.name) =>
            \A i \in 1..Len(m_chunks) : m_chunks[i].component_name = Unknown
        /\ Lacks(component.description) =>
            \A i \in 1..Len(m_chunks) : "Description" \notin m_chunks[i].parts
        /\ Lacks(component.file) =>
            \A i \in 1..Len(m_chunks) : "Location" \notin m_chunks[i].parts
        /\ component.props \in {"absent", "null"} =>
            FragmentsOfType("props") = {}
        /\ component.raw \in {"absent", "null"} =>
            FragmentsOfType("code") = {}

(***************************************************************************)
(* The invocation of the extractor: subprocess.Popen with stdout and       *)
(* stderr on pipes, in emergency_process (src/bckup/ingest_components.py)  *)
(* and create_chunks (src/bckup/latest/ingest_components.py).  The         *)
(* extractor writes stdout_left and stderr_left more units of output, in   *)
(* any order, and exits when all of it has been accepted; a write blocks   *)
(* while the pipe is full.                                                 *)
(***************************************************************************)
PopenSites == {"emergency_process", "create_chunks"}

InitPipe ==
    /\ popen_site \in PopenSites
    /\ stdout_left \in 0..MaxOut
    /\ stderr_left \in 0..MaxErr
    /\ exit_status \in {0, 1}
    /\ stdout_pipe = 0
    /\ stderr_pipe = 0
    /\ child = "running"
    /\ echoed = 0
    /\ err = 0
    /\ returncode = None
    /\ xpc = "read_stdout"

IdlePipe ==
    /\ popen_site = "emergency_process" /\ stdout_left = 0 /\ stderr_left = 0
    /\ exit_status = 0 /\ stdout_pipe = 0 /\ stderr_pipe = 0
    /\ child = "exited" /\ echoed = 0 /\ err = 0 /\ returncode = None
    /\ xpc = "idle"

pipeInputs == <<popen_site, exit_status>>

\* the extractor writes one unit to its stdout
ChildWritesStdout ==
    /\ child = "running"
    /\ stdout_left > 0
    /\ stdout_pipe < PipeCap
    /\ stdout_left' = stdout_left - 1
    /\ stdout_pipe' = stdout_pipe + 1
    /\ UNCHANGED <<pipeInputs, stderr_left, stderr_pipe, child, echoed, err,
                   returncode, xpc, pipeOthers>>

\* the extractor writes one unit to its stderr
ChildWritesStderr ==
    /\ child = "running"
    /\ stderr_left > 0
    /\ stderr_pipe < PipeCap
    /\ stderr_left' = stderr_left - 1
    /\ stderr_pipe' = stderr_pipe + 1
    /\ UNCHANGED <<pipeInputs, stdout_left, stdout_pipe, child, echoed, err,
                   returncode, xpc, pipeOthers>>

\* the extractor exits, which closes its ends of both pipes
ChildExits ==
    /\ child = "running"
    /\ stdout_left = 0 /\ stderr_left = 0
    /\ child' = "exited"
    /\ UNCHANGED <<pipeInputs, stdout_left, stderr_left, stdout_pipe,
                   stderr_pipe, echoed, err, returncode, xpc, pipeOthers>>

\* for line in process.stdout: print(line, end='')
EchoLine ==
    /\ xpc = "read_stdout"
    /\ stdout_pipe > 0
    /\ stdout_pipe' = stdout_pipe - 1
    /\ echoed' = echoed + 1
    /\ UNCHANGED <<pipeInputs, stdout_left, stderr_left, stderr_pipe, child,
                   err, returncode, xpc, pipeOthers>>

\* end of file on stdout: the loop ends; process.stdout.close()
StdoutEof ==
    /\ xpc = "read_stdout"
    /\ stdout_pipe = 0
    /\ child = "exited"
    /\ xpc' = "wait"
    /\ UNCHANGED <<pipeInputs, stdout_left, stderr_left, stdout_pipe,
                   stderr_pipe, child, echoed, err, returncode, pipeOthers>>

\* returncode = process.wait()
Wait ==
    /\ xpc = "wait"
    /\ child = "exited"
    /\ returncode' = exit_status
    /\ xpc' = "check_rc"
    /\ UNCHANGED <<pipeInputs, stdout_left, stderr_left, stdout_pipe,
                   stderr_pipe, child, echoed, err, pipeOthers>>

\* if returncode != 0: err = process.stderr.read(); ...; raise
ReadStderr ==
    /\ xpc = "check_rc"
    /\ returncode # 0
    /\ err' = stderr_pipe
    /\ stderr_pipe' = 0
    /\ xpc' = "raised"
    /\ UNCHANGED <<pipeInputs, stdout_left, stderr_left, stdout_pipe, child,
                   echoed, returncode, pipeOthers>>

\* returncode == 0: process.stderr.close()
CloseStderr ==
    /\ xpc = "check_rc"
    /\ returncode = 0
    /\ stderr_pipe' = 0
    /\ xpc' = "recheck"
    /\ UNCHANGED <<pipeInputs, stdout_left, stderr_left, stdout_pipe, child,
                   echoed, err, returncode, pipeOthers>>

NextPipe ==
    \/ ChildWritesStdout \/ ChildWritesStderr \/ ChildExits
    \/ EchoLine \/ StdoutEof \/ Wait \/ ReadStderr \/ CloseStderr

(***************************************************************************)
(* Claims about the invocation of the extractor.                           *)
(***************************************************************************)
\* C22: the invocation of the extractor cannot block forever: for every
\* amount of output the extractor writes to its stdout and its stderr, the
\* extractor exits and the parent reaches the test of the exit code.
C22_ExtractorNeverBlocks ==
    <>(child = "exited" /\ xpc \in {"check_rc", "raised", "recheck"})

(***************************************************************************)
(* Specifications.                                                         *)
(***************************************************************************)
InitSpecChunk ==
    /\ InitChunk /\ IdleSplit /\ IdleIngest /\ IdleQuery /\ IdlePartition
    /\ IdleIndex /\ IdleRun /\ IdleClean /\ IdleMap
    /\ IdlePipe
SpecChunk == InitSpecChunk /\ [][NextChunk]_vars

InitSpecSplit ==
    /\ InitSplit /\ IdleChunk /\ IdleIngest /\ IdleQuery /\ IdlePartition
    /\ IdleIndex /\ IdleRun /\ IdleClean /\ IdleMap
    /\ IdlePipe
SpecSplit == InitSpecSplit /\ [][NextSplit]_vars

InitSpecIngest ==
    /\ InitIngest /\ IdleChunk /\ IdleSplit /\ IdleQuery /\ IdlePartition
    /\ IdleIndex /\ IdleRun /\ IdleClean /\ IdleMap
    /\ IdlePipe
SpecIngest == InitSpecIngest /\ [][NextIngest]_vars

InitSpecQuery ==
    /\ InitQuery /\ IdleChunk /\ IdleSplit /\ IdleIngest /\ IdlePartition
    /\ IdleIndex /\ IdleRun /\ IdleClean /\ IdleMap
    /\ IdlePipe
SpecQuery == InitSpecQuery /\ [][NextQuery]_vars

InitSpecPartition ==
    /\ InitPartition /\ IdleChunk /\ IdleSplit /\ IdleIngest /\ IdleQuery
    /\ IdleIndex /\ IdleRun /\ IdleClean /\ IdleMap
    /\ IdlePipe
SpecPartition == InitSpecPartition /\ [][NextPartition]_vars

InitSpecIndex ==
    /\ InitIndex /\ IdleChunk /\ IdleSplit /\ IdleIngest /\ IdleQuery
    /\ IdlePartition /\ IdleRun /\ IdleClean /\ IdleMap
    /\ IdlePipe
SpecIndex == InitSpecIndex /\ [][NextIndex]_vars

InitSpecRun ==
    /\ InitRun /\ IdleChunk /\ IdleSplit /\ IdleIngest /\ IdleQuery
    /\ IdlePartition /\ IdleIndex /\ IdleClean /\ IdleMap
    /\ IdlePipe
SpecRun == InitSpecRun /\ [][NextRun]_vars

InitSpecClean ==
    /\ InitClean /\ IdleChunk /\ IdleSplit /\ IdleIngest /\ IdleQuery
    /\ IdlePartition /\ IdleIndex /\ IdleRun /\ IdleMap
    /\ IdlePipe
SpecClean == InitSpecClean /\ [][NextClean]_vars

InitSpecMap ==
    /\ InitMap /\ IdleChunk /\ IdleSplit /\ IdleIngest /\ IdleQuery
    /\ IdlePartition /\ IdleIndex /\ IdleRun /\ IdleClean /\ IdlePipe
SpecMap == InitSpecMap /\ [][NextMap]_vars

\* The extractor and the parent are two processes the operating system
\* runs: a step one of them can take is taken.
InitSpecPipe ==
    /\ InitPipe /\ IdleChunk /\ IdleSplit /\ IdleIngest /\ IdleQuery
    /\ IdlePartition /\ IdleIndex /\ IdleRun /\ IdleClean /\ IdleMap
SpecPipe == InitSpecPipe /\ [][NextPipe]_vars /\ WF_vars(NextPipe)

====
